---- MODULE Spec2Model ----
(***************************************************************************)
(* Model of hatch's terminal output manager (src/hatch/cli/terminal.py):   *)
(* the BorrowedStatus status stack and the verbosity-gated display_*       *)
(* family of Terminal.                                                     *)
(*                                                                         *)
(* Text is a sequence of one-character strings, so that the "Finished ..." *)
(* synthesis is computed, not assumed.  Every operation is one action; the *)
(* calls it makes on its collaborators (the rich console, the spinner      *)
(* handle, the platform hooks) are recorded, in order, in `calls`.         *)
(***************************************************************************)
EXTENDS Integers, Sequences, FiniteSets, TLC

\* ------------------------------------------------------------------ bounds
MaxDepth == 3          \* deepest status stack explored
MaxVerbosity == 3      \* verbosities explored are -MaxVerbosity..MaxVerbosity
MaxLevel == 4          \* debug levels explored are 0..MaxLevel

Verbosities == (-MaxVerbosity)..MaxVerbosity
Levels == 0..MaxLevel

\* messages and final texts the callers pass to status(message, final_text)
Messages == {<<>>, <<"A", "B">>}
FinalTexts == {<<>>, <<"O", "k">>}
\* a wider choice of texts for the completion-text synthesis
SynthMessages == Messages \cup {<<"c", "D">>, <<"R", "e", " ", "D">>}
SynthFinals == FinalTexts \cup {<<"D", "o">>}
\* the text handed to the display_* methods
SomeText == <<"t">>

VARIABLES
    tty,                \* BorrowedStatus.__tty (interactive and console.is_terminal)
    verbosity,          \* Terminal.verbosity / BorrowedStatus.__verbosity
    messages,           \* BorrowedStatus.__messages, a stack of [message, final_text]
    status,             \* BorrowedStatus.__status: None or the current spinner handle
    displaying_status,  \* platform.displaying_status, set by the two hooks
    console_stderr,     \* console.stderr, the stream-selection flag
    nstarted,           \* number of spinner handles that are started
    calls,              \* collaborator calls made by the last operation, in order
    err,                \* outcome of the last operation: "ok" or the exception raised
    lastOp,             \* the last operation and its arguments
    completions,        \* history: per stack entry, 1 once Stop() printed its completion line
    propagates,         \* the wrapped work's exception continues after the last __exit__
    attrs,              \* Terminal's _style_* attributes, by attribute name
    styles,             \* the argument of the last initialize_styles call
    errors,             \* the list the last initialize_styles call returned
    phase               \* history: "acquiring" while only `with` scopes were opened,
                        \* "releasing" while they are then closed, else "other"

vars == <<tty, verbosity, messages, status, displaying_status, console_stderr,
          nstarted, calls, err, lastOp, completions, propagates,
          attrs, styles, errors, phase>>

\* ------------------------------------------------------------ pure helpers
None == <<>>

Last(seq) == seq[Len(seq)]
Front(seq) == SubSeq(seq, 1, Len(seq) - 1)

\* str.lower() on one character
Lower(c) ==
    CASE c = "A" -> "a"
      [] c = "B" -> "b"
      [] c = "O" -> "o"
      [] c = "D" -> "d"
      [] c = "R" -> "r"
      [] OTHER -> c

Finished == <<"F", "i", "n", "i", "s", "h", "e", "d", " ">>

\* the synthesis with .lower() applied to the whole message
FinishedText_LowerAll(plain) ==
    Finished \o [i \in 1..Len(plain) |-> Lower(plain[i])]

\* f'Finished {final_text[:1].lower()}{final_text[1:]}'
FinishedText(plain) ==
    Finished \o (IF plain = <<>> THEN <<>> ELSE <<Lower(plain[1])>>)
             \o SubSeq(plain, 2, Len(plain))

\* the completion text of a stack entry: `if not final_text: ...`
FinalText(entry) ==
    IF entry.final_text = <<>> THEN FinishedText(entry.message) ELSE entry.final_text

\* ---------------------------------------------- the state an operation sees
\* The fields an operation reads and writes, as one record.
Cur ==
    [messages |-> messages, status |-> status,
     displaying_status |-> displaying_status, console_stderr |-> console_stderr,
     nstarted |-> nstarted, calls |-> <<>>, err |-> "ok"]

\* ------------------------------------------------------ the rich collaborators
\* console.print(...): goes to the stream console.stderr selects at that moment;
\* `fail` is the renderer raising instead of printing.
ConsolePrint(s, text, style, fail) ==
    [s EXCEPT !.calls = Append(@, [call |-> "print", text |-> text, style |-> style,
                                   stderr |-> s.console_stderr, ok |-> ~fail]),
              !.err = IF fail THEN "RenderError" ELSE @]

SetStderr(s, v) == [s EXCEPT !.console_stderr = v]

\* self.__status.stop(): Live.stop() clears is_started
StatusStop(s) ==
    [s EXCEPT !.status = <<[s.status[1] EXCEPT !.started = FALSE]>>,
              !.nstarted = IF s.status[1].started THEN @ - 1 ELSE @,
              !.calls = Append(@, [call |-> "status.stop", text |-> s.status[1].message])]

\* self.__status = self.__console.status(message, spinner=...)
ConsoleStatus(s, message) ==
    [s EXCEPT !.status = <<[message |-> message, started |-> FALSE]>>,
              !.calls = Append(@, [call |-> "console.status", text |-> message])]

\* self.__status.start(): Live.start() sets is_started
StatusStart(s) ==
    [s EXCEPT !.status = <<[s.status[1] EXCEPT !.started = TRUE]>>,
              !.nstarted = IF s.status[1].started THEN @ ELSE @ + 1,
              !.calls = Append(@, [call |-> "status.start", text |-> s.status[1].message])]

\* initializer=lambda: setattr(self.platform, 'displaying_status', True)
Initializer(s) ==
    [s EXCEPT !.displaying_status = TRUE,
              !.calls = Append(@, [call |-> "initializer", text |-> <<>>])]

\* finalizer=lambda: setattr(self.platform, 'displaying_status', False)
Finalizer(s) ==
    [s EXCEPT !.displaying_status = FALSE,
              !.calls = Append(@, [call |-> "finalizer", text |-> <<>>])]

\* -------------------------------------------------------------- BorrowedStatus
\* __active that is content with an allocated handle
BorrowedStatus_active_AllocatedOnly(s) == s.status # None

\* __active
BorrowedStatus_active(s) == s.status # None /\ s.status[1].started

\* __output without the `finally`: a raising print leaves the flag set
BorrowedStatus_output_NoFinally(s, text, style, fail) ==
    LET p == ConsolePrint(SetStderr(s, TRUE), text, style, fail)
    IN  IF p.err # "ok" THEN p ELSE SetStderr(p, FALSE)

\* __output: print on the error stream, restoring the flag in `finally`
BorrowedStatus_output(s, text, style, fail) ==
    SetStderr(ConsolePrint(SetStderr(s, TRUE), text, style, fail), FALSE)

\* stop that looks at the handle only after having stopped it
BorrowedStatus_stop_ActiveAfterStop(s, fail) ==
    LET s1 == IF s.status # None THEN StatusStop(s) ELSE s
        active == BorrowedStatus_active(s1)
    IN  IF s1.messages = <<>>
        THEN [s1 EXCEPT !.err = "IndexError"]
        ELSE IF verbosity > 0 /\ active
             THEN BorrowedStatus_output(s1, FinalText(Last(s1.messages)), "success", fail)
             ELSE s1

\* stop
BorrowedStatus_stop(s, fail) ==
    LET active == BorrowedStatus_active(s)
        s1 == IF s.status # None THEN StatusStop(s) ELSE s
    IN  IF s1.messages = <<>>
        THEN [s1 EXCEPT !.err = "IndexError"]
        ELSE IF verbosity > 0 /\ active
             THEN BorrowedStatus_output(s1, FinalText(Last(s1.messages)), "success", fail)
             ELSE s1

\* __call__ that only hands the object back
BorrowedStatus_call_NoPush(s, message, final_text) == s

\* __call__
BorrowedStatus_call(s, message, final_text) ==
    [s EXCEPT !.messages = Append(@, [message |-> message, final_text |-> final_text])]

\* __enter__ that invokes the attach hook on every begin
BorrowedStatus_enter_AlwaysAttach(s, fail) ==
    IF s.messages = <<>>
    THEN s
    ELSE LET message == Last(s.messages).message
         IN  IF ~tty
             THEN BorrowedStatus_output(s, message, "waiting", fail)
             ELSE LET s1 == IF s.status = None THEN Initializer(s)
                            ELSE Initializer(StatusStop(s))
                  IN  StatusStart(ConsoleStatus(s1, message))

\* __enter__ that replaces the handle of the shadowed entry without stopping it
BorrowedStatus_enter_NoStop(s, fail) ==
    IF s.messages = <<>>
    THEN s
    ELSE LET message == Last(s.messages).message
         IN  IF ~tty
             THEN BorrowedStatus_output(s, message, "waiting", fail)
             ELSE LET s1 == IF s.status = None THEN Initializer(s) ELSE s
                  IN  StatusStart(ConsoleStatus(s1, message))

\* __enter__
BorrowedStatus_enter(s, fail) ==
    IF s.messages = <<>>
    THEN s
    ELSE LET message == Last(s.messages).message
         IN  IF ~tty
             THEN BorrowedStatus_output(s, message, "waiting", fail)
             ELSE LET s1 == IF s.status = None THEN Initializer(s) ELSE StatusStop(s)
                  IN  StatusStart(ConsoleStatus(s1, message))

\* __exit__ that reads the entry for the completion line after the pop
BorrowedStatus_exit_PrintsNewTop(s, fail) ==
    IF s.messages = <<>>
    THEN [s EXCEPT !.err = "IndexError"]
    ELSE LET s1 == [s EXCEPT !.messages = Front(@)]
             old == IF s1.messages = <<>> THEN Last(s.messages) ELSE Last(s1.messages)
             s2 == IF verbosity > 0 /\ BorrowedStatus_active(s1)
                   THEN BorrowedStatus_output(s1, FinalText(old), "success", fail)
                   ELSE s1
         IN  IF s2.err # "ok" THEN s2
             ELSE IF ~tty THEN s2
             ELSE IF s2.status = None THEN [s2 EXCEPT !.err = "AttributeError"]
             ELSE LET s3 == StatusStop(s2)
                  IN  IF s3.messages = <<>>
                      THEN Finalizer([s3 EXCEPT !.status = None])
                      ELSE StatusStart(ConsoleStatus(s3, Last(s3.messages).message))

\* __exit__ that gates the completion line on verbosity alone
BorrowedStatus_exit_NoActiveCheck(s, fail) ==
    IF s.messages = <<>>
    THEN [s EXCEPT !.err = "IndexError"]
    ELSE LET old == Last(s.messages)
             s1 == [s EXCEPT !.messages = Front(@)]
             s2 == IF verbosity > 0
                   THEN BorrowedStatus_output(s1, FinalText(old), "success", fail)
                   ELSE s1
         IN  IF s2.err # "ok" THEN s2
             ELSE IF ~tty THEN s2
             ELSE IF s2.status = None THEN [s2 EXCEPT !.err = "AttributeError"]
             ELSE LET s3 == StatusStop(s2)
                  IN  IF s3.messages = <<>>
                      THEN Finalizer([s3 EXCEPT !.status = None])
                      ELSE StatusStart(ConsoleStatus(s3, Last(s3.messages).message))

\* __exit__ that allocates the handle for the new top entry but never starts it
BorrowedStatus_exit_NoRestart(s, fail) ==
    IF s.messages = <<>>
    THEN [s EXCEPT !.err = "IndexError"]
    ELSE LET old == Last(s.messages)
             s1 == [s EXCEPT !.messages = Front(@)]
             s2 == IF verbosity > 0 /\ BorrowedStatus_active(s1)
                   THEN BorrowedStatus_output(s1, FinalText(old), "success", fail)
                   ELSE s1
         IN  IF s2.err # "ok" THEN s2
             ELSE IF ~tty THEN s2
             ELSE IF s2.status = None THEN [s2 EXCEPT !.err = "AttributeError"]
             ELSE LET s3 == StatusStop(s2)
                  IN  IF s3.messages = <<>>
                      THEN Finalizer([s3 EXCEPT !.status = None])
                      ELSE ConsoleStatus(s3, Last(s3.messages).message)

\* __exit__ that tolerates an empty stack
BorrowedStatus_exit_SilentOnEmpty(s, fail) ==
    IF s.messages = <<>>
    THEN s
    ELSE LET old == Last(s.messages)
             s1 == [s EXCEPT !.messages = Front(@)]
             s2 == IF verbosity > 0 /\ BorrowedStatus_active(s1)
                   THEN BorrowedStatus_output(s1, FinalText(old), "success", fail)
                   ELSE s1
         IN  IF s2.err # "ok" THEN s2
             ELSE IF ~tty THEN s2
             ELSE IF s2.status = None THEN [s2 EXCEPT !.err = "AttributeError"]
             ELSE LET s3 == StatusStop(s2)
                  IN  IF s3.messages = <<>>
                      THEN Finalizer([s3 EXCEPT !.status = None])
                      ELSE StatusStart(ConsoleStatus(s3, Last(s3.messages).message))

\* __exit__ that keeps the stopped handle when the stack becomes empty
BorrowedStatus_exit_KeepsHandle(s, fail) ==
    IF s.messages = <<>>
    THEN [s EXCEPT !.err = "IndexError"]
    ELSE LET old == Last(s.messages)
             s1 == [s EXCEPT !.messages = Front(@)]
             s2 == IF verbosity > 0 /\ BorrowedStatus_active(s1)
                   THEN BorrowedStatus_output(s1, FinalText(old), "success", fail)
                   ELSE s1
         IN  IF s2.err # "ok" THEN s2
             ELSE IF ~tty THEN s2
             ELSE IF s2.status = None THEN [s2 EXCEPT !.err = "AttributeError"]
             ELSE LET s3 == StatusStop(s2)
                  IN  IF s3.messages = <<>>
                      THEN Finalizer(s3)
                      ELSE StatusStart(ConsoleStatus(s3, Last(s3.messages).message))

\* __exit__ that clears the handle but never tells the platform
BorrowedStatus_exit_NoDetach(s, fail) ==
    IF s.messages = <<>>
    THEN [s EXCEPT !.err = "IndexError"]
    ELSE LET old == Last(s.messages)
             s1 == [s EXCEPT !.messages = Front(@)]
             s2 == IF verbosity > 0 /\ BorrowedStatus_active(s1)
                   THEN BorrowedStatus_output(s1, FinalText(old), "success", fail)
                   ELSE s1
         IN  IF s2.err # "ok" THEN s2
             ELSE IF ~tty THEN s2
             ELSE IF s2.status = None THEN [s2 EXCEPT !.err = "AttributeError"]
             ELSE LET s3 == StatusStop(s2)
                  IN  IF s3.messages = <<>>
                      THEN [s3 EXCEPT !.status = None]
                      ELSE StatusStart(ConsoleStatus(s3, Last(s3.messages).message))

\* __exit__
BorrowedStatus_exit(s, fail) ==
    IF s.messages = <<>>
    THEN [s EXCEPT !.err = "IndexError"]
    ELSE LET old == Last(s.messages)
             s1 == [s EXCEPT !.messages = Front(@)]
             s2 == IF verbosity > 0 /\ BorrowedStatus_active(s1)
                   THEN BorrowedStatus_output(s1, FinalText(old), "success", fail)
                   ELSE s1
         IN  IF s2.err # "ok" THEN s2
             ELSE IF ~tty THEN s2
             ELSE IF s2.status = None THEN [s2 EXCEPT !.err = "AttributeError"]
             ELSE LET s3 == StatusStop(s2)
                  IN  IF s3.messages = <<>>
                      THEN Finalizer([s3 EXCEPT !.status = None])
                      ELSE StatusStart(ConsoleStatus(s3, Last(s3.messages).message))

\* -------------------------------------------------------------------- Terminal
\* output: stream selection scoped by try/finally when stderr is requested
Terminal_output(s, text, style, stderr, fail) ==
    IF ~stderr
    THEN ConsolePrint(s, text, style, fail)
    ELSE SetStderr(ConsolePrint(SetStderr(s, TRUE), text, style, fail), FALSE)

display_critical(s, text, fail) ==
    SetStderr(ConsolePrint(SetStderr(s, TRUE), text, "error", fail), FALSE)

display_error(s, text, stderr, fail) ==
    IF verbosity < -2 THEN s ELSE Terminal_output(s, text, "error", stderr, fail)

\* display_warning gated like display_info
display_warning_InfoFloor(s, text, stderr, fail) ==
    IF verbosity < 0 THEN s ELSE Terminal_output(s, text, "warning", stderr, fail)

display_warning(s, text, stderr, fail) ==
    IF verbosity < -1 THEN s ELSE Terminal_output(s, text, "warning", stderr, fail)

display_info(s, text, stderr, fail) ==
    IF verbosity < 0 THEN s ELSE Terminal_output(s, text, "info", stderr, fail)

\* display_success gated one level higher than display_info
display_success_HigherFloor(s, text, stderr, fail) ==
    IF verbosity < 1 THEN s ELSE Terminal_output(s, text, "success", stderr, fail)

display_success(s, text, stderr, fail) ==
    IF verbosity < 0 THEN s ELSE Terminal_output(s, text, "success", stderr, fail)

display_waiting(s, text, stderr, fail) ==
    IF verbosity < 0 THEN s ELSE Terminal_output(s, text, "waiting", stderr, fail)

\* display_debug that applies the verbosity gate before the range check
display_debug_GateFirst(s, text, level, stderr, fail) ==
    IF verbosity < level THEN s
    ELSE IF ~(1 <= level /\ level <= 3)
    THEN [s EXCEPT !.err = "ValueError"]
    ELSE Terminal_output(s, text, "debug", stderr, fail)

display_debug(s, text, level, stderr, fail) ==
    IF ~(1 <= level /\ level <= 3)
    THEN [s EXCEPT !.err = "ValueError"]
    ELSE IF verbosity < level THEN s
    ELSE Terminal_output(s, text, "debug", stderr, fail)

\* display_mini_header: three gated calls; failAt is the print (1..3) on which
\* the renderer raises, 0 for none.  An exception ends the method there.
display_mini_header(s, text, stderr, failAt) ==
    IF verbosity < 0 THEN s
    ELSE LET s1 == display_info(s, <<"[">>, stderr, failAt = 1)
         IN  IF s1.err # "ok" THEN s1
             ELSE LET s2 == display_success(s1, text, stderr, failAt = 2)
                  IN  IF s2.err # "ok" THEN s2
                      ELSE display_info(s2, <<"]">>, stderr, failAt = 3)

\* ---------------------------------------------------------------- style registry
MaxStyles == 3         \* most entries in the mapping given to initialize_styles

\* the level names the constructor sets a default for (lines 149-155)
LevelNames == {"success", "error", "warning", "waiting", "info", "debug"}
\* the option names explored in a mapping; none of them starts with "level_"
StyleOptions == {"error", "info", "spinner", "custom"}
OptionNames == LevelNames \cup StyleOptions
\* descriptors rich's Style.parse accepts: the defaults and one user style
ValidDescriptors ==
    {"bold cyan", "bold red", "bold yellow", "bold magenta", "bold", "bold green"}
\* the descriptors explored in a mapping
Descriptors == {"bold green", "not-a-style"}

\* attribute names f'_style_level_{option}' and f'_style_{option}'
LevelAttr(option) == <<"_style_level_", option>>
PlainAttr(option) == <<"_style_", option>>
AttrNames == {LevelAttr(o) : o \in OptionNames} \cup {PlainAttr(o) : o \in OptionNames}

\* attribute values: a str, a parsed Style, or no such attribute
Str(text) == [kind |-> "str", text |-> text]
StyleObj(text) == [kind |-> "Style", text |-> text]
Absent == [kind |-> "absent", text |-> ""]

\* Terminal.__init__: the defaults, all of them strings
InitialAttrs ==
    [a \in AttrNames |->
        CASE a = LevelAttr("success") -> Str("bold cyan")
          [] a = LevelAttr("error") -> Str("bold red")
          [] a = LevelAttr("warning") -> Str("bold yellow")
          [] a = LevelAttr("waiting") -> Str("bold magenta")
          [] a = LevelAttr("info") -> Str("bold")
          [] a = LevelAttr("debug") -> Str("bold")
          [] a = PlainAttr("spinner") -> Str("simpleDotsScrolling")
          [] OTHER -> Absent]

\* getattr(self, attribute, None) followed by `if default_level:`
Truthy(v) == v.kind # "absent" /\ v.text # ""

\* Style.parse(text): a Style, or StyleSyntaxError when the text is no style
Parses(text) == text \in ValidDescriptors

RECURSIVE initialize_styles_NoFallback(_, _, _)
\* initialize_styles without `style = Style.parse(default_level)` in the handler
initialize_styles_NoFallback(items, a, errs) ==
    IF items = <<>>
    THEN [attrs |-> a, errors |-> errs, err |-> "ok"]
    ELSE LET option == items[1][1]
             style == items[1][2]
             default_level == a[LevelAttr(option)]
         IN  IF Truthy(default_level)
             THEN IF Parses(style)
                  THEN initialize_styles_NoFallback(Tail(items),
                           [a EXCEPT ![LevelAttr(option)] = StyleObj(style)], errs)
                  ELSE initialize_styles_NoFallback(Tail(items),
                           [a EXCEPT ![LevelAttr(option)] = Str(style)],
                           Append(errs, [option |-> option, default |-> default_level.text]))
             ELSE initialize_styles_NoFallback(Tail(items),
                      [a EXCEPT ![PlainAttr(option)] = Str(style)], errs)

RECURSIVE initialize_styles(_, _, _)
\* initialize_styles: the loop over styles.items(), `a` the attributes so far
\* and `errs` the error strings so far; an error string is kept as the option
\* and the default it names
initialize_styles(items, a, errs) ==
    IF items = <<>>
    THEN [attrs |-> a, errors |-> errs, err |-> "ok"]
    ELSE LET option == items[1][1]
             style == items[1][2]
             default_level == a[LevelAttr(option)]
         IN  IF Truthy(default_level)
             THEN IF Parses(style)
                  THEN initialize_styles(Tail(items),
                           [a EXCEPT ![LevelAttr(option)] = StyleObj(style)], errs)
                  ELSE initialize_styles(Tail(items),
                           [a EXCEPT ![LevelAttr(option)] = StyleObj(default_level.text)],
                           Append(errs, [option |-> option, default |-> default_level.text]))
             ELSE initialize_styles(Tail(items),
                      [a EXCEPT ![PlainAttr(option)] = Str(style)], errs)

\* the mappings explored: up to MaxStyles entries with distinct options, in
\* any insertion order
StyleInputs ==
    UNION {{f \in [1..n -> StyleOptions \X Descriptors] :
               \A i, j \in 1..n : i # j => f[i][1] # f[j][1]} : n \in 0..MaxStyles}

\* ------------------------------------------------------------------- actions
\* lastOp.n is the parity of the number of operations performed, so that
\* repeating an operation is a step of its own
\* lastOp.exc: the scope is left because the wrapped work raised
Op(name) == [op |-> name, level |-> 0, stderr |-> TRUE, n |-> 0, exc |-> FALSE]

\* how the history variable follows the operations that returned normally
NextPhase(op, e) ==
    CASE op = "with" -> IF phase = "acquiring" /\ e = "ok" THEN "acquiring" ELSE "other"
      [] op = "exit" -> IF phase \in {"acquiring", "releasing"} /\ e = "ok"
                        THEN "releasing" ELSE "other"
      [] op \in {"call", "enter", "stop"} -> "other"
      [] OTHER -> phase

\* a completion line (success style) was printed by the operation
PrintedCompletion(cs) ==
    \E i \in 1..Len(cs) : cs[i].call = "print" /\ cs[i].ok /\ cs[i].style = "success"

\* for each entry still on the stack, whether Stop() has already printed a
\* completion line for it (1) or not (0)
NextCompletions(s, op) ==
    CASE op \in {"call", "with"} -> Append(completions, 0)
      [] op = "exit" -> IF messages = <<>> THEN completions ELSE Front(completions)
      [] op = "stop" ->
            IF messages # <<>> /\ PrintedCompletion(s.calls)
            THEN [completions EXCEPT ![Len(completions)] = 1]
            ELSE completions
      [] OTHER -> completions

\* __exit__ returns None on both of its paths (lines 112 and 121), so it never
\* suppresses the exception of the wrapped work
ExitSuppresses == FALSE

Commit(s, op) ==
    /\ messages' = s.messages
    /\ status' = s.status
    /\ displaying_status' = s.displaying_status
    /\ console_stderr' = s.console_stderr
    /\ nstarted' = s.nstarted
    /\ calls' = s.calls
    /\ err' = s.err
    /\ lastOp' = [op EXCEPT !.n = 1 - lastOp.n]
    /\ phase' = NextPhase(op.op, s.err)
    /\ completions' = NextCompletions(s, op.op)
    /\ propagates' = (op.op = "exit" /\ op.exc /\ ~ExitSuppresses)
    /\ UNCHANGED <<tty, verbosity, attrs, styles, errors>>

Init ==
    /\ tty \in BOOLEAN
    /\ verbosity \in Verbosities
    /\ messages = <<>>
    /\ status = None
    /\ displaying_status = FALSE
    /\ console_stderr = FALSE
    /\ nstarted = 0
    /\ calls = <<>>
    /\ err = "ok"
    /\ lastOp = Op("init")
    /\ phase = "acquiring"
    /\ completions = <<>>
    /\ propagates = FALSE
    /\ attrs = InitialAttrs
    /\ styles = <<>>
    /\ errors = <<>>

\* token = terminal.status(message, final_text), scope not entered
Call ==
    \E m \in Messages, f \in FinalTexts :
        /\ Len(messages) < MaxDepth
        /\ Commit(BorrowedStatus_call(Cur, m, f), Op("call"))

\* entering the scope of the status object as it stands
Enter ==
    \E fail \in BOOLEAN :
        Commit(BorrowedStatus_enter(Cur, fail), Op("enter"))

\* `with terminal.status(message, final_text):` -- acquire and begin
With ==
    \E m \in Messages, f \in FinalTexts, fail \in BOOLEAN :
        /\ Len(messages) < MaxDepth
        /\ Commit(BorrowedStatus_enter(BorrowedStatus_call(Cur, m, f), fail), Op("with"))

\* leaving a scope: release
Exit ==
    \E fail \in BOOLEAN, exc \in BOOLEAN :
        Commit(BorrowedStatus_exit(Cur, fail), [Op("exit") EXCEPT !.exc = exc])

Stop ==
    \E fail \in BOOLEAN :
        Commit(BorrowedStatus_stop(Cur, fail), Op("stop"))

\* `with terminal.status(message, final_text):` at the outermost level, with
\* the wider choice of texts
AcquireSynth ==
    \E m \in SynthMessages, f \in SynthFinals, fail \in BOOLEAN :
        /\ messages = <<>>
        /\ Commit(BorrowedStatus_enter(BorrowedStatus_call(Cur, m, f), fail), Op("with"))

TOp(name, level, stderr) ==
    [op |-> name, level |-> level, stderr |-> stderr, n |-> 0, exc |-> FALSE]

Output ==
    \E stderr \in BOOLEAN, fail \in BOOLEAN :
        Commit(Terminal_output(Cur, SomeText, "none", stderr, fail), TOp("output", 0, stderr))

DisplayCritical ==
    \E fail \in BOOLEAN :
        Commit(display_critical(Cur, SomeText, fail), TOp("display_critical", 0, TRUE))

DisplayError ==
    \E stderr \in BOOLEAN, fail \in BOOLEAN :
        Commit(display_error(Cur, SomeText, stderr, fail), TOp("display_error", 0, stderr))

DisplayWarning ==
    \E stderr \in BOOLEAN, fail \in BOOLEAN :
        Commit(display_warning(Cur, SomeText, stderr, fail), TOp("display_warning", 0, stderr))

DisplayInfo ==
    \E stderr \in BOOLEAN, fail \in BOOLEAN :
        Commit(display_info(Cur, SomeText, stderr, fail), TOp("display_info", 0, stderr))

DisplaySuccess ==
    \E stderr \in BOOLEAN, fail \in BOOLEAN :
        Commit(display_success(Cur, SomeText, stderr, fail), TOp("display_success", 0, stderr))

DisplayWaiting ==
    \E stderr \in BOOLEAN, fail \in BOOLEAN :
        Commit(display_waiting(Cur, SomeText, stderr, fail), TOp("display_waiting", 0, stderr))

DisplayDebug ==
    \E level \in Levels, stderr \in BOOLEAN, fail \in BOOLEAN :
        Commit(display_debug(Cur, SomeText, level, stderr, fail), TOp("display_debug", level, stderr))

DisplayMiniHeader ==
    \E stderr \in BOOLEAN, failAt \in 0..3 :
        Commit(display_mini_header(Cur, SomeText, stderr, failAt),
               TOp("display_mini_header", 0, stderr))

\* errors = terminal.initialize_styles(styles), on a Terminal whose level
\* styles are still the constructor's strings (the call made once at start-up)
InitializeStyles ==
    \E items \in StyleInputs :
        /\ attrs = InitialAttrs
        /\ LET r == initialize_styles(items, attrs, <<>>)
           IN  /\ attrs' = r.attrs
               /\ errors' = r.errors
               /\ err' = r.err
        /\ styles' = items
        /\ calls' = <<>>
        /\ lastOp' = [TOp("initialize_styles", 0, TRUE) EXCEPT !.n = 1 - lastOp.n]
        /\ UNCHANGED <<tty, verbosity, messages, status, displaying_status,
                       console_stderr, nstarted, completions, propagates, phase>>

\* the status stack
Next == Call \/ Enter \/ With \/ Exit \/ Stop

Spec == Init /\ [][Next]_vars

\* the display_* family and the two unconditional printers
NextTerminal ==
    \/ Output \/ DisplayCritical \/ DisplayError \/ DisplayWarning \/ DisplayInfo
    \/ DisplaySuccess \/ DisplayWaiting \/ DisplayDebug \/ DisplayMiniHeader

\* the status stack on a renderer that never raises
Reliable(A) == A /\ err' # "RenderError"

NextReliable ==
    \/ Reliable(Call) \/ Reliable(Enter) \/ Reliable(With)
    \/ Reliable(Exit) \/ Reliable(Stop)

SpecReliable == Init /\ [][NextReliable]_vars

\* one status at a time, over the wider choice of texts
NextSynthesis == AcquireSynth \/ Exit \/ Stop

SpecSynthesis == Init /\ [][NextSynthesis]_vars

\* the style registry
NextStyles == InitializeStyles

SpecStyles == Init /\ [][NextStyles]_vars

\* the status stack used through `with terminal.status(...)` scopes and Stop() only
NextScoped == With \/ Exit \/ Stop

SpecScoped == Init /\ [][NextScoped]_vars

SpecTerminal == Init /\ [][NextTerminal]_vars

\* every operation that selects the error stream, interleaved
NextConsole ==
    \/ Call \/ Enter \/ With \/ Exit \/ Stop
    \/ Output \/ DisplayCritical \/ DisplayError

\* these operations read the verbosity only in `verbosity > 0` (completion
\* prints) and `verbosity < -2` (display_error): one verbosity of each class
InitConsole == Init /\ verbosity \in {-MaxVerbosity, 0, MaxVerbosity}

SpecConsole == InitConsole /\ [][NextConsole]_vars


\* ==================================================================== claims
\* the lines the renderer accepted during the last operation
IsPrinted(c) == c.call = "print" /\ c.ok
Prints(cs) == SelectSeq(cs, IsPrinted)
\* a line on the error stream
Line(text, style) ==
    [call |-> "print", text |-> text, style |-> style, stderr |-> TRUE, ok |-> TRUE]
\* the texts of a sequence of printed lines
Texts(cs) == [i \in 1..Len(cs) |-> cs[i].text]

\* C1 -- stack discipline: in TTY mode with verbosity > 0, while the history is
\* N acquire-and-begin operations followed by releases (no Stop, no other
\* status operation), every release pops exactly the top entry and prints
\* exactly one line, the completion text of the entry it pops; so N releases
\* print N completion lines.
C1_StackDiscipline ==
    [][(tty /\ verbosity > 0 /\ lastOp'.op = "exit" /\ phase' = "releasing")
         => /\ messages' = Front(messages)
            /\ Prints(calls') = <<Line(FinalText(Last(messages)), "success")>>]_vars

\* two scopes were opened, the inner one carried a custom final text and has
\* just been released
C1_Witness ==
    /\ tty /\ verbosity > 0 /\ lastOp.op = "exit" /\ phase = "releasing"
    /\ Len(messages) = 1
    /\ Texts(Prints(calls)) = << <<"O", "k">> >>

\* C2 -- Stop() on an empty stack is a no-op in both modes: no error, nothing
\* printed, entries, handle and hook state unchanged.
C2_StopOnEmptyIsNoOp ==
    [][(lastOp'.op = "stop" /\ messages = <<>>)
         => /\ err' = "ok"
            /\ calls' = <<>>
            /\ UNCHANGED <<messages, status, displaying_status>>]_vars

\* C3 -- non-TTY linearity: whatever the verbosity and the final text, an
\* acquire-and-begin prints exactly one line, the waiting message, and makes
\* no other call; a release prints nothing.
C3_NonTtyLinearity ==
    ~tty =>
        /\ (lastOp.op = "with" /\ err = "ok")
             => calls = <<Line(Last(messages).message, "waiting")>>
        /\ lastOp.op = "exit" => calls = <<>>

\* a release in non-TTY mode at a verbosity that allows completion lines
C3_Witness ==
    ~tty /\ verbosity > 0 /\ lastOp.op = "exit" /\ err = "ok" /\ messages # <<>>

C5_ReleaseOnEmptyFails ==
    [][/\ (lastOp'.op = "exit" /\ messages = <<>>)
            => /\ err' = "IndexError"
               /\ calls' = <<>>
               /\ UNCHANGED <<messages, status, displaying_status, nstarted,
                              console_stderr>>
       /\ (lastOp'.op = "enter" /\ messages = <<>>)
            => /\ err' = "ok"
               /\ calls' = <<>>
               /\ UNCHANGED <<messages, status, displaying_status, nstarted,
                              console_stderr>>]_vars

\* a release on the empty stack has just failed, after at least one earlier
\* operation
C5_Witness ==
    lastOp.op = "exit" /\ err = "IndexError" /\ messages = <<>> /\ lastOp.n = 0

\* C6 -- Stop() on a non-empty stack does not pop; it stops the handle if one
\* exists, and prints the completion line of the top entry exactly when
\* verbosity > 0 and the handle was started when Stop() was called.
C6_StopDoesNotPop ==
    [][(lastOp'.op = "stop" /\ messages # <<>>)
         => /\ messages' = messages
            /\ status' = IF status = None THEN None
                         ELSE <<[status[1] EXCEPT !.started = FALSE]>>
            /\ err' \in {"ok", "RenderError"}
            /\ err' = "ok"
                 => Prints(calls') =
                      IF verbosity > 0 /\ status # None /\ status[1].started
                      THEN <<Line(FinalText(Last(messages)), "success")>>
                      ELSE <<>>]_vars

\* Stop() has printed the synthesized completion line of a top entry that
\* stays on a stack of depth two
C6_Witness ==
    /\ lastOp.op = "stop" /\ err = "ok" /\ Len(messages) = 2
    /\ Prints(calls) # <<>>
    /\ Last(messages).final_text = <<>>

\* C7 -- stream restoration: between any two operations the console's
\* stream-selection flag is at its default (the primary stream), also after an
\* operation whose print on the error stream raised.
C7_StreamRestored == console_stderr = FALSE

\* a print on the error stream has just raised
C7_Witness ==
    /\ err = "RenderError"
    /\ \E i \in 1..Len(calls) :
          calls[i].call = "print" /\ calls[i].stderr /\ ~calls[i].ok
    /\ lastOp.op \in {"exit", "stop", "enter", "with"}

\* C8 -- debug level bound check: a level outside 1..3 raises the
\* invalid-argument error at every verbosity and prints nothing; a level in
\* 1..3 never raises it.
C8_DebugLevelBound ==
    lastOp.op = "display_debug" =>
        /\ lastOp.level \notin 1..3 => (err = "ValueError" /\ calls = <<>>)
        /\ lastOp.level \in 1..3 => err # "ValueError"

\* level 4 rejected at a verbosity that would have suppressed the message
C8_Witness ==
    /\ lastOp.op = "display_debug" /\ lastOp.level = 4 /\ verbosity < 0
    /\ err = "ValueError"

\* one gated call: at or above the floor it hands exactly one line of its
\* class to the renderer, below it does nothing and raises nothing
Gated(op, floor, style) ==
    lastOp.op = op =>
        IF verbosity >= floor
        THEN /\ Len(calls) = 1
             /\ calls[1].call = "print" /\ calls[1].style = style
             /\ calls[1].text = SomeText
             /\ calls[1].ok <=> err = "ok"
        ELSE calls = <<>> /\ err = "ok"

\* C9 -- verbosity gating: error >= -2, warning >= -1, info/success/waiting
\* >= 0, debug level L in 1..3 >= L; below the floor the call is a no-op
\* without error.  The floors being fixed numbers, a class shown at v is shown
\* at every v' > v.
C9_VerbosityGating ==
    /\ Gated("display_error", -2, "error")
    /\ Gated("display_warning", -1, "warning")
    /\ Gated("display_info", 0, "info")
    /\ Gated("display_success", 0, "success")
    /\ Gated("display_waiting", 0, "waiting")
    /\ lastOp.level \in 1..3 => Gated("display_debug", lastOp.level, "debug")

\* display_debug(level=2) suppressed at verbosity 1
C9_Witness ==
    /\ lastOp.op = "display_debug" /\ lastOp.level = 2 /\ verbosity = 1
    /\ calls = <<>> /\ err = "ok"

ExpectedFinished(message) ==
    CASE message = <<>> -> <<"F", "i", "n", "i", "s", "h", "e", "d", " ">>
      [] message = <<"A", "B">> ->
            <<"F", "i", "n", "i", "s", "h", "e", "d", " ", "a", "B">>
      [] message = <<"c", "D">> ->
            <<"F", "i", "n", "i", "s", "h", "e", "d", " ", "c", "D">>
      [] message = <<"R", "e", " ", "D">> ->
            <<"F", "i", "n", "i", "s", "h", "e", "d", " ", "r", "e", " ", "D">>

\* C11 -- completion-text synthesis: whenever a release or Stop() prints a
\* completion line for the top entry, it is the entry's final text verbatim if
\* that is non-empty, and otherwise "Finished " followed by the message with
\* only its first character lowercased ("Finished " for the empty message).
C11_CompletionSynthesis ==
    [][(lastOp'.op \in {"exit", "stop"} /\ messages # <<>> /\ PrintedCompletion(calls'))
         => LET e == Last(messages)
            IN  Texts(Prints(calls')) =
                  << IF e.final_text # <<>> THEN e.final_text
                     ELSE ExpectedFinished(e.message) >>]_vars

\* Stop() has printed "Finished re D" for the message "Re D"
C11_Witness ==
    /\ lastOp.op = "stop" /\ messages # <<>>
    /\ Last(messages).message = <<"R", "e", " ", "D">>
    /\ Texts(Prints(calls)) =
         << <<"F", "i", "n", "i", "s", "h", "e", "d", " ", "r", "e", " ", "D">> >>

\* the defaults, as the claim knows them
ExpectedDefault(option) ==
    CASE option = "error" -> "bold red"
      [] option = "info" -> "bold"

\* the error strings of a returned list that name an option
ErrorsNaming(errs, option) == {j \in 1..Len(errs) : errs[j].option = option}

\* C12 -- style fallback: initialize_styles does not fail on an unparsable
\* descriptor; a recognized level name with an unparsable descriptor ends with
\* its default in effect and exactly one error string naming it, a level name
\* with a parsable descriptor gets that style and no error string, and the
\* list holds nothing else.
C12_StyleFallback ==
    lastOp.op = "initialize_styles" =>
        /\ err = "ok"
        /\ \A i \in 1..Len(styles) :
              LET option == styles[i][1]
                  style == styles[i][2]
              IN  option \in LevelNames =>
                     IF style = "not-a-style"
                     THEN /\ attrs[<<"_style_level_", option>>] =
                               [kind |-> "Style", text |-> ExpectedDefault(option)]
                          /\ Cardinality(ErrorsNaming(errors, option)) = 1
                          /\ \A j \in ErrorsNaming(errors, option) :
                                errors[j].default = ExpectedDefault(option)
                     ELSE /\ attrs[<<"_style_level_", option>>] =
                               [kind |-> "Style", text |-> style]
                          /\ ErrorsNaming(errors, option) = {}
        /\ \A j \in 1..Len(errors) :
              \E i \in 1..Len(styles) :
                  styles[i] = <<errors[j].option, "not-a-style">>

\* {"info": good, "error": bad, "custom": bad}: one error string, for "error"
C12_Witness ==
    /\ lastOp.op = "initialize_styles"
    /\ styles = << <<"info", "bold green">>, <<"error", "not-a-style">>,
                   <<"custom", "not-a-style">> >>
    /\ Len(errors) = 1
    /\ attrs[<<"_style_level_", "error">>] = [kind |-> "Style", text |-> "bold red"]

HookCalls(cs, hook) == {i \in 1..Len(cs) : cs[i].call = hook}

\* C14 -- attach/detach pairing: after every begin, end or Stop() that
\* returns, the platform flag is true exactly when a handle is held; attach is
\* invoked only by a begin that finds no handle (and the flag false), detach
\* only by an end that empties the stack (and finds the flag true), at most one
\* hook per operation, and the flag changes only through them -- so the two
\* alternate, attach first; in non-TTY mode neither is invoked.
C14_AttachDetachPairing ==
    [][/\ (lastOp'.op \in {"enter", "with", "exit", "stop"} /\ err' = "ok")
            => (displaying_status' <=> status' # None)
       /\ HookCalls(calls', "initializer") # {}
            => /\ lastOp'.op \in {"enter", "with"}
               /\ status = None /\ ~displaying_status /\ displaying_status'
       /\ HookCalls(calls', "finalizer") # {}
            => /\ lastOp'.op = "exit"
               /\ messages' = <<>> /\ status' = None
               /\ displaying_status /\ ~displaying_status'
       /\ Cardinality(HookCalls(calls', "initializer")
                        \cup HookCalls(calls', "finalizer")) <= 1
       /\ displaying_status' # displaying_status
            => HookCalls(calls', "initializer") \cup HookCalls(calls', "finalizer") # {}
       /\ ~tty => HookCalls(calls', "initializer") \cup HookCalls(calls', "finalizer") = {}]_vars

\* a detach: the release that emptied the stack has invoked the finalizer and
\* the flag set by the earlier attach is false again
C14_Witness ==
    /\ tty /\ lastOp.op = "exit" /\ err = "ok"
    /\ HookCalls(calls, "finalizer") # {}
    /\ messages = <<>> /\ status = None /\ ~displaying_status

\* C15 -- completion eligibility: a release or Stop() prints a completion
\* line only if verbosity > 0 and the started handle was displaying the message
\* of the entry the line is printed for; never for an entry that was pushed
\* but not shown.
C15_CompletionEligibility ==
    [][(lastOp'.op \in {"exit", "stop"} /\ messages # <<>> /\ PrintedCompletion(calls'))
         => /\ verbosity > 0
            /\ status # None /\ status[1].started
            /\ status[1].message = Last(messages).message]_vars

\* C16 (as stated) -- push happens at begin: creating a token leaves entries
\* alone, entering its scope pushes one entry, leaving it pops one.
C16_PushAtBegin ==
    [][/\ lastOp'.op = "call" => messages' = messages
       /\ (lastOp'.op = "enter" /\ err' = "ok") => Front(messages') = messages
       /\ (lastOp'.op = "exit" /\ messages # <<>>) => messages' = Front(messages)]_vars

\* C16 (amended) -- push happens at creation: status(message, final_text)
\* pushes the entry, entering a scope pushes nothing, every release that finds
\* an entry pops exactly the top one (also when it then raises), and Stop()
\* leaves entries alone; so the depth is the number of tokens created minus
\* the number of releases that found an entry.
C16_PushAtCall ==
    [][/\ lastOp'.op \in {"call", "with"}
            => /\ Len(messages') = Len(messages) + 1
               /\ Front(messages') = messages
               /\ Last(messages').message \in Messages
               /\ Last(messages').final_text \in FinalTexts
       /\ lastOp'.op \in {"enter", "stop"} => messages' = messages
       /\ lastOp'.op = "exit"
            => messages' = IF messages = <<>> THEN <<>> ELSE Front(messages)]_vars

\* two tokens created, no scope entered: two entries, no handle
C16_Witness ==
    lastOp.op = "call" /\ Len(messages) = 2 /\ status = None /\ tty /\ ~displaying_status

\* C17 -- at most one started spinner: never more than one handle is started,
\* and it is the one held; whenever an operation starts a handle it has first
\* stopped the previous one (or there was none and it attached).
C17_AtMostOneSpinner ==
    /\ nstarted <= 1
    /\ nstarted = IF status # None /\ status[1].started THEN 1 ELSE 0
    /\ \A i \in 1..Len(calls) :
          calls[i].call = "status.start"
            => \E j \in 1..(i - 1) : calls[j].call \in {"status.stop", "initializer"}

\* a nested begin: the shadowed entry's handle was stopped, then the new one
\* started
C17_Witness ==
    /\ lastOp.op = "with" /\ Len(messages) = 3 /\ nstarted = 1
    /\ Len(calls) = 3
    /\ calls[1].call = "status.stop" /\ calls[3].call = "status.start"

\* the calls of an operation that are not prints
IsNotPrint(c) == c.call # "print"
NonPrints(cs) == SelectSeq(cs, IsNotPrint)

C19_AtMostOneCompletion ==
    [][(lastOp'.op \in {"exit", "stop"} /\ messages # <<>> /\ PrintedCompletion(calls'))
         => Last(completions) = 0]_vars

\* C20 -- Stop() is idempotent on a non-empty stack: a Stop() that directly
\* follows a Stop() prints nothing, raises nothing and leaves entries, handle,
\* started spinners, platform flag and stream flag as the first one left them.
C20_StopIdempotent ==
    [][(lastOp.op = "stop" /\ lastOp'.op = "stop" /\ messages # <<>>)
         => /\ Prints(calls') = <<>>
            /\ \A i \in 1..Len(calls') : calls'[i].call = "status.stop"
            /\ err' = "ok"
            /\ UNCHANGED <<messages, status, displaying_status, nstarted,
                           console_stderr>>]_vars

\* Stop() at a verbosity that allows completion lines found a handle that was
\* not started any more, and printed nothing
C20_Witness ==
    /\ tty /\ verbosity > 0 /\ lastOp.op = "stop" /\ err = "ok"
    /\ messages # <<>> /\ status # None /\ ~status[1].started
    /\ calls = <<[call |-> "status.stop", text |-> status[1].message]>>

====
